---- MODULE Spec2Model ----
(* The CSP solver of Assignment.py: the constraint store, AC-3            *)
(* (inference / revise) and the recursive backtracking search.            *)
(*                                                                         *)
(* Python objects that are shared by reference (the dictionaries of       *)
(* domains) live in `heap`; a dictionary is named by its index in `heap`. *)
(* A dictionary key is written as a tuple of names: the variable 'A' is   *)
(* the key <<"A">>, the Python tuple ('A', 'B') is <<"A", "B">> and None  *)
(* is <<>>, so that keys of different Python types can be compared.       *)
EXTENDS Integers, Sequences, FiniteSets, TLC

(* ---------------------------------------------------------------------- *)
(* Bounds of the model                                                     *)
(* ---------------------------------------------------------------------- *)
\* values are 1..MaxVal
MaxVal == 2
\* the number of inference calls made by the propagation harness
MaxCalls == 2

\* the number of add_variable and add_constraint_one_way calls that build a
\* store call by call
MaxOps == 4

\* the largest list of values that select_unassigned_variable is asked about
MaxSize == 3

Values == 1 .. MaxVal

\* The variable names a store is built with: one-character names, as in a
\* map-colouring instance, or 'row-col' names, as in create_sudoku_csp.
NameSchemes == { <<"A", "B", "C">>, <<"0-0", "0-1", "0-2">> }

\* The predicates handed to add_constraint_one_way
FilterFunctions == {"neq", "lt"}

\* The names handed to the build methods when a store is built call by call
BuildNames == {"A", "B"}

VARIABLES
    variables,      \* self.variables
    domains,        \* self.domains: the heap index of the dictionary
    constraints,    \* self.constraints[i]: ordered dictionary j -> pairs
    heap,           \* the dictionaries name -> list of values
    pc,             \* where the program is
    stack,          \* the live calls of backtrack that are in their loop
    cur,            \* the assignment of the running backtrack/inference call
    q,              \* inference: the queue
    counter,        \* inference: the position in the queue
    caller,         \* inference: who called it
    infResult,      \* the value the last inference call returned, if it did
    retval,         \* the value backtrack returned
    result,         \* the value backtracking_search returned
    err,            \* the exception that ended the program
    calls,          \* harness: inference calls made so far
    before,         \* harness: the assignment before the first call
    nops,           \* harness: calls of the store's build methods so far
    call,           \* harness: the last method call and its arguments
    out,            \* harness: what the last method call returned
    applied,        \* harness: per constraint table, the lists it was built
                    \* from and the predicates it was filtered with
    todo            \* harness: the arcs of the initial queue not yet visited

harnessVars == << nops, call, out, applied, todo >>

vars == << variables, domains, constraints, heap, pc, stack, cur, q, counter,
           caller, infResult, retval, result, err, calls, before, harnessVars >>

None == 0

Range(s) == { s[k] : k \in 1 .. Len(s) }

(* ---------------------------------------------------------------------- *)
(* The constraint store                                                    *)
(* ---------------------------------------------------------------------- *)
Holds(f, x, y) ==
    CASE f = "neq" -> x # y
      [] f = "lt"  -> x < y

get_all_possible_pairs(a, b) == Range(a) \X Range(b)

HasKey(d, j) == \E k \in 1 .. Len(d) : d[k].key = j

Lookup(d, j) == d[CHOOSE k \in 1 .. Len(d) : d[k].key = j].value

\* add_variable that keeps the constraints of a name it already knows
add_variable_keepsConstraints(st, name, domain) ==
    [ variables   |-> Append(st.variables, name),
      domains     |-> [ v \in DOMAIN st.domains \cup {name} |->
                          IF v = name THEN domain ELSE st.domains[v] ],
      constraints |-> [ v \in DOMAIN st.constraints \cup {name} |->
                          IF v \in DOMAIN st.constraints THEN st.constraints[v]
                          ELSE << >> ] ]

add_variable(st, name, domain) ==
    [ variables   |-> Append(st.variables, name),
      domains     |-> [ v \in DOMAIN st.domains \cup {name} |->
                          IF v = name THEN domain ELSE st.domains[v] ],
      constraints |-> [ v \in DOMAIN st.constraints \cup {name} |->
                          IF v = name THEN << >> ELSE st.constraints[v] ] ]

\* add_constraint_one_way raises KeyError: self.constraints[i] for a name i
\* that was never added, self.domains[j] for such a name j
add_constraint_raises(st, i, j) ==
    \/ i \notin DOMAIN st.constraints
    \/ /\ ~ HasKey(st.constraints[i], j)
       /\ (i \notin DOMAIN st.domains \/ j \notin DOMAIN st.domains)

\* add_constraint_one_way that starts from all pairs every time: the new
\* predicate replaces the table instead of filtering it
add_constraint_one_way_replace(st, i, j, filter_function) ==
    LET d     == st.constraints[i]
        fresh == [ key   |-> j,
                   value |-> { p \in get_all_possible_pairs(
                                        st.domains[i], st.domains[j]) :
                                 Holds(filter_function, p[1], p[2]) } ]
    IN  [ st EXCEPT !.constraints[i] =
            IF HasKey(d, j)
            THEN [ k \in 1 .. Len(d) |-> IF d[k].key = j THEN fresh ELSE d[k] ]
            ELSE Append(d, fresh) ]

add_constraint_one_way(st, i, j, filter_function) ==
    LET d     == st.constraints[i]
        start == IF HasKey(d, j) THEN d
                 ELSE Append(d, [ key   |-> j,
                                  value |-> get_all_possible_pairs(
                                              st.domains[i], st.domains[j]) ])
        new   == [ k \in 1 .. Len(start) |->
                     IF start[k].key = j
                     THEN [ key   |-> j,
                            value |-> { p \in start[k].value :
                                          Holds(filter_function, p[1], p[2]) } ]
                     ELSE start[k] ]
    IN  [ st EXCEPT !.constraints[i] = new ]

EmptyStore == [ variables |-> << >>, domains |-> << >>, constraints |-> << >> ]

\* The strictly increasing lists over Values
Lists ==
    UNION { { s \in [1 .. k -> Values] :
                \A a, b \in 1 .. k : a < b => s[a] < s[b] } : k \in 0 .. MaxVal }

RECURSIVE AddVariables(_, _, _, _)
AddVariables(st, names, doms, k) ==
    IF k > Len(names) THEN st
    ELSE AddVariables(add_variable(st, names[k], doms[k]), names, doms, k + 1)

\* add_constraint_one_way for each ordered pair (a, b) of distinct variables
\* that is in arcs, in the order of the pairs, each with the predicate f.
RECURSIVE AddConstraints(_, _, _, _, _, _)
AddConstraints(st, names, arcs, f, a, b) ==
    IF a > Len(names) THEN st
    ELSE IF b > Len(names) THEN AddConstraints(st, names, arcs, f, a + 1, 1)
    ELSE LET s1 == IF <<a, b>> \in arcs
                   THEN add_constraint_one_way(st, names[a], names[b], f)
                   ELSE st
         IN  AddConstraints(s1, names, arcs, f, a, b + 1)

PairsOf(n) == { p \in (1 .. n) \X (1 .. n) : p[1] # p[2] }

\* The store built from the first n of the names
Store(names, n, doms, arcs, f) ==
    AddConstraints(AddVariables(EmptyStore, SubSeq(names, 1, n), doms, 1),
                   SubSeq(names, 1, n), arcs, f, 1, 1)

\* The keys of self.domains and of self.constraints in the order in which a
\* loop over the dictionary visits them: the names in the order of their
\* first add_variable call
RECURSIVE KeyOrder(_)
KeyOrder(names) ==
    IF names = << >> THEN << >>
    ELSE LET front == KeyOrder(SubSeq(names, 1, Len(names) - 1))
             last  == names[Len(names)]
         IN  IF last \in Range(front) THEN front ELSE Append(front, last)

RECURSIVE Flatten(_)
Flatten(ss) == IF ss = << >> THEN << >> ELSE Head(ss) \o Flatten(Tail(ss))

get_all_arcs ==
    LET keys == KeyOrder(variables)
    IN  Flatten([ a \in 1 .. Len(keys) |->
                    [ k \in 1 .. Len(constraints[keys[a]]) |->
                        << <<keys[a]>>, <<constraints[keys[a]][k].key>> >> ] ])

\* [(i, var) for i in self.constraints[var]]: each element is a Python tuple
get_all_neighboring_arcs(var) ==
    [ k \in 1 .. Len(constraints[var]) |-> << constraints[var][k].key, var >> ]


(* ---------------------------------------------------------------------- *)
(* Assignments: dictionaries on the heap                                   *)
(* ---------------------------------------------------------------------- *)
\* deepcopy left out: the "copy" is the dictionary itself
deepcopy_alias(h, ref) == [ heap |-> h, ref |-> ref ]

\* copy.deepcopy(h[ref]): a new dictionary with lists of its own
deepcopy(h, ref) == [ heap |-> Append(h, h[ref]), ref |-> Len(h) + 1 ]

\* key is a key of the dictionary asg
IsKey(asg, key) == Len(key) = 1 /\ key[1] \in DOMAIN asg

\* for variable in assignment: if len(variable) > 1: return False
assignmentIsComplete(assignment) ==
    \A variable \in DOMAIN assignment : ~ (Len(variable) > 1)

\* select_unassigned_variable that takes any variable that has a value
select_unassigned_variable_decided(assignment) ==
    LET keys     == KeyOrder(variables)
        nonempty == { a \in 1 .. Len(keys) : Len(assignment[keys[a]]) > 0 }
    IN  IF nonempty = {} THEN << >>
        ELSE << keys[CHOOSE a \in nonempty : \A b \in nonempty : a <= b] >>

\* the first variable, in the dictionary's order, with more than one value;
\* None when the loop ends without a return
select_unassigned_variable(assignment) ==
    LET keys      == KeyOrder(variables)
        undecided == { a \in 1 .. Len(keys) : Len(assignment[keys[a]]) > 1 }
    IN  IF undecided = {} THEN << >>
        ELSE << keys[CHOOSE a \in undecided : \A b \in undecided : a <= b] >>

\* list.remove(v): drops the first occurrence of v
Remove(s, v) ==
    LET p == CHOOSE k \in 1 .. Len(s) :
                 s[k] = v /\ \A m \in 1 .. k - 1 : s[m] # v
    IN  SubSeq(s, 1, p - 1) \o SubSeq(s, p + 1, Len(s))

\* revise where every value of j overwrites noSatisfaction, so that only the
\* last value of assignment[j] decides
RECURSIVE ReviseLoop_lastValue(_, _, _, _, _)
ReviseLoop_lastValue(di, dj, pairs, idx, revised) ==
    IF idx > Len(di) THEN [ domain |-> di, revised |-> revised ]
    ELSE LET iDomainValue   == di[idx]
             noSatisfaction == \/ dj = << >>
                               \/ <<iDomainValue, dj[Len(dj)]>> \notin pairs
         IN  IF noSatisfaction
             THEN ReviseLoop_lastValue(
                      SubSeq(di, 1, idx - 1) \o SubSeq(di, idx + 1, Len(di)),
                      dj, pairs, idx + 1, TRUE)
             ELSE ReviseLoop_lastValue(di, dj, pairs, idx + 1, revised)

\* The for loop of revise over assignment[i]: the list iterator is at
\* position idx; a removal shifts the rest of the list one place down while
\* the iterator still moves one place up.
RECURSIVE ReviseLoop(_, _, _, _, _)
ReviseLoop(di, dj, pairs, idx, revised) ==
    IF idx > Len(di) THEN [ domain |-> di, revised |-> revised ]
    ELSE LET iDomainValue   == di[idx]
             noSatisfaction == ~ \E jDomainValue \in Range(dj) :
                                   <<iDomainValue, jDomainValue>> \in pairs
         IN  IF noSatisfaction
             THEN ReviseLoop(Remove(di, iDomainValue), dj, pairs, idx + 1, TRUE)
             ELSE ReviseLoop(di, dj, pairs, idx + 1, revised)

\* revise that removes values but never sets revised
revise_flagNotSet(assignment, i, j) ==
    [ domain  |-> ReviseLoop(assignment[i], assignment[j],
                             Lookup(constraints[i], j), 1, FALSE).domain,
      revised |-> FALSE ]

\* revise(assignment, i, j): the new list of i and the returned flag
revise(assignment, i, j) ==
    ReviseLoop(assignment[i], assignment[j], Lookup(constraints[i], j), 1, FALSE)

\* the trial without deepcopy: newAssignment is assignment itself
trial_alias(h, assignment, unassignedVar, value) ==
    [ heap |-> [ h EXCEPT ![assignment][unassignedVar] = << value >> ],
      ref  |-> assignment ]

\* the trial that clones the store's domains instead of the assignment
trial_fromStore(h, assignment, unassignedVar, value) ==
    LET c == deepcopy(h, domains)
    IN  [ heap |-> [ c.heap EXCEPT ![c.ref][unassignedVar] = << value >> ],
          ref  |-> c.ref ]

\* newAssignment = copy.deepcopy(assignment)
\* newAssignment[unassignedVar] = [value]
trial(h, assignment, unassignedVar, value) ==
    LET c == deepcopy(h, assignment)
    IN  [ heap |-> [ c.heap EXCEPT ![c.ref][unassignedVar] = << value >> ],
          ref  |-> c.ref ]

\* Python's truth value of what backtrack returned: None and {} are false
Truthy(h, r) == r # None /\ DOMAIN h[r] # {}

\* The value of call before any call: no method, no arguments
NoCall == [ op |-> "none", i |-> "", j |-> "", f |-> "", domain |-> << >>,
            iKnown |-> FALSE, jKnown |-> FALSE ]

(* ---------------------------------------------------------------------- *)
(* The program                                                             *)
(* ---------------------------------------------------------------------- *)
Init ==
    \E names \in NameSchemes : \E n \in 1 .. Len(names) :
    \E doms \in [1 .. n -> Lists] :
    \E arcs \in SUBSET PairsOf(n) : \E f \in FilterFunctions :
    LET st == Store(names, n, doms, arcs, f) IN
        /\ variables = st.variables
        /\ constraints = st.constraints
        /\ heap = << st.domains >>
        /\ domains = Len(heap)
        /\ pc = "idle"
        /\ stack = << >>
        /\ cur = None
        /\ q = << >>
        /\ counter = 0
        /\ caller = "none"
        /\ infResult = "none"
        /\ retval = None
        /\ result = None
        /\ err = "none"
        /\ calls = 0
        /\ before = st.domains
        /\ nops = 0
        /\ call = NoCall
        /\ out = << >>
        /\ applied = << >>
        /\ todo = {}

\* backtracking_search up to the call of inference
backtracking_search ==
    /\ pc = "idle"
    /\ LET c == deepcopy(heap, domains)
       IN  /\ heap' = c.heap
           /\ cur' = c.ref
    /\ q' = get_all_arcs
    /\ counter' = 0
    /\ caller' = "root"
    /\ infResult' = "none"
    /\ pc' = "inference"
    /\ UNCHANGED << variables, domains, constraints, stack, retval, result, err,
                    calls, before,
                    harnessVars >>

\* What one round of inference appends to the queue after revise(x, y)
\* removed a value: (neighbour, x) for every neighbour that is not y
Appended(x, y) ==
    SelectSeq([ k \in 1 .. Len(get_all_neighboring_arcs(x[1])) |->
                  << get_all_neighboring_arcs(x[1])[k], x >> ],
              LAMBDA e : e[1] # y)

\* The body of the while loop of inference for the queue entry (x, y)
Round(x, y) ==
    IF ~ IsKey(heap[cur], x)
    THEN \* revise: assignment[i] raises KeyError
         /\ pc' = "error"
         /\ err' = "KeyError"
         /\ UNCHANGED << heap, q, infResult >>
    ELSE LET r == revise(heap[cur], x[1], y[1])
         IN  /\ heap' = [ heap EXCEPT ![cur][x[1]] = r.domain ]
             /\ err' = err
             /\ IF r.revised /\ Len(r.domain) = 0
                THEN /\ infResult' = "False"
                     /\ pc' = "inferred"
                     /\ q' = q
                ELSE /\ q' = IF r.revised THEN q \o Appended(x, y) ELSE q
                     /\ UNCHANGED << pc, infResult >>

\* One round of the while loop of inference
InferenceStep ==
    /\ pc = "inference"
    /\ todo = {}
    /\ counter < Len(q)
    /\ counter' = counter + 1
    /\ Round(q[counter + 1][1], q[counter + 1][2])
    /\ UNCHANGED << variables, domains, constraints, stack, cur, caller, retval,
                    result, calls, before, harnessVars >>

\* The while loop of inference ends: return True
InferenceReturn ==
    /\ pc = "inference"
    /\ todo = {}
    /\ counter >= Len(q)
    /\ infResult' = "True"
    /\ pc' = "inferred"
    /\ UNCHANGED << variables, domains, constraints, heap, stack, cur, q, counter,
                    caller, retval, result, err, calls, before,
                    harnessVars >>

\* backtracking_search after inference: its value is dropped
RootContinue ==
    /\ pc = "inferred"
    /\ caller = "root"
    /\ pc' = "backtrack"
    /\ UNCHANGED << variables, domains, constraints, heap, stack, cur, q, counter,
                    caller, infResult, retval, result, err, calls, before,
                    harnessVars >>

\* backtrack from its entry to its loop
BacktrackEnter ==
    /\ pc = "backtrack"
    /\ IF assignmentIsComplete(heap[cur])
       THEN /\ retval' = cur
            /\ pc' = "returning"
            /\ UNCHANGED << stack, err >>
       ELSE LET unassignedVar == select_unassigned_variable(heap[cur])
            IN  IF ~ IsKey(heap[cur], unassignedVar)
                THEN \* assignment[unassignedVar] raises KeyError
                     /\ pc' = "error"
                     /\ err' = "KeyError"
                     /\ UNCHANGED << stack, retval >>
                ELSE /\ stack' = Append(stack, [ assignment    |-> cur,
                                                 unassignedVar |-> unassignedVar[1],
                                                 idx           |-> 1 ])
                     /\ pc' = "loop"
                     /\ UNCHANGED << retval, err >>
    /\ UNCHANGED << variables, domains, constraints, heap, cur, q, counter, caller,
                    infResult, result, calls, before,
                    harnessVars >>

Top == stack[Len(stack)]

Pop == SubSeq(stack, 1, Len(stack) - 1)

NextValue == [ stack EXCEPT ![Len(stack)].idx = @ + 1 ]

\* One round of the for loop of backtrack, up to the call of inference
TryValue ==
    /\ pc = "loop"
    /\ Top.idx <= Len(heap[Top.assignment][Top.unassignedVar])
    /\ LET value == heap[Top.assignment][Top.unassignedVar][Top.idx]
           c     == trial(heap, Top.assignment, Top.unassignedVar, value)
       IN  /\ heap' = c.heap
           /\ cur' = c.ref
    /\ q' = get_all_arcs
    /\ counter' = 0
    /\ caller' = "trial"
    /\ infResult' = "none"
    /\ pc' = "inference"
    /\ UNCHANGED << variables, domains, constraints, stack, retval, result, err,
                    calls, before,
                    harnessVars >>

\* backtrack after inference: recurse, or go to the next value
TrialContinue ==
    /\ pc = "inferred"
    /\ caller = "trial"
    /\ IF infResult = "True"
       THEN /\ pc' = "backtrack"
            /\ stack' = stack
       ELSE /\ pc' = "loop"
            /\ stack' = NextValue
    /\ UNCHANGED << variables, domains, constraints, heap, cur, q, counter, caller,
                    infResult, retval, result, err, calls, before,
                    harnessVars >>

\* The for loop of backtrack ends: return None
Exhausted ==
    /\ pc = "loop"
    /\ Top.idx > Len(heap[Top.assignment][Top.unassignedVar])
    /\ stack' = Pop
    /\ retval' = None
    /\ pc' = "returning"
    /\ UNCHANGED << variables, domains, constraints, heap, cur, q, counter, caller,
                    infResult, result, err, calls, before,
                    harnessVars >>

\* A recursive call of backtrack returned into the loop of its caller
ResultReceived ==
    /\ pc = "returning"
    /\ stack # << >>
    /\ IF Truthy(heap, retval)
       THEN /\ stack' = Pop
            /\ pc' = "returning"
       ELSE /\ stack' = NextValue
            /\ pc' = "loop"
    /\ UNCHANGED << variables, domains, constraints, heap, cur, q, counter, caller,
                    infResult, retval, result, err, calls, before,
                    harnessVars >>

\* The outermost backtrack returned: backtracking_search returns its value
Finish ==
    /\ pc = "returning"
    /\ stack = << >>
    /\ result' = retval
    /\ pc' = "done"
    /\ UNCHANGED << variables, domains, constraints, heap, stack, cur, q, counter,
                    caller, infResult, retval, err, calls, before,
                    harnessVars >>

Next ==
    \/ backtracking_search
    \/ InferenceStep
    \/ InferenceReturn
    \/ RootContinue
    \/ BacktrackEnter
    \/ TryValue
    \/ TrialContinue
    \/ Exhausted
    \/ ResultReceived
    \/ Finish

Spec == Init /\ [][Next]_vars

(* ---------------------------------------------------------------------- *)
(* Propagation on its own: inference called again and again on one         *)
(* assignment, a copy of the store's domains, with all arcs                *)
(* ---------------------------------------------------------------------- *)
Propagate ==
    /\ calls < MaxCalls
    /\ \/ pc = "idle" /\ calls = 0
       \/ pc = "inferred" /\ caller = "propagate"
    /\ IF calls = 0
       THEN LET c == deepcopy(heap, domains)
            IN  /\ heap' = c.heap
                /\ cur' = c.ref
                /\ before' = heap[domains]
       ELSE UNCHANGED << heap, cur, before >>
    /\ q' = get_all_arcs
    /\ counter' = 0
    /\ caller' = "propagate"
    /\ infResult' = "none"
    /\ calls' = calls + 1
    /\ pc' = "inference"
    /\ UNCHANGED << variables, domains, constraints, stack, retval, result, err,
                    harnessVars >>

NextPropagate ==
    \/ Propagate
    \/ InferenceStep
    \/ InferenceReturn

SpecPropagate == Init /\ [][NextPropagate]_vars

(* ---------------------------------------------------------------------- *)
(* The store built call by call, and asked for its neighbouring arcs       *)
(* ---------------------------------------------------------------------- *)
CurStore ==
    [ variables |-> variables, domains |-> heap[domains],
      constraints |-> constraints ]

NoTable == [ made |-> FALSE, di |-> << >>, dj |-> << >>, fs |-> {} ]

\* csp = CSP()
InitBuild ==
    /\ variables = EmptyStore.variables
    /\ constraints = EmptyStore.constraints
    /\ heap = << EmptyStore.domains >>
    /\ domains = Len(heap)
    /\ pc = "build"
    /\ stack = << >>
    /\ cur = None
    /\ q = << >>
    /\ counter = 0
    /\ caller = "none"
    /\ infResult = "none"
    /\ retval = None
    /\ result = None
    /\ err = "none"
    /\ calls = 0
    /\ before = EmptyStore.domains
    /\ nops = 0
    /\ call = NoCall
    /\ out = << >>
    /\ applied = [ p \in BuildNames \X BuildNames |-> NoTable ]
    /\ todo = {}

\* csp.add_variable(name, domain)
AddVariable ==
    /\ pc = "build"
    /\ nops < MaxOps
    /\ \E name \in BuildNames : \E domain \in Lists :
         LET st == add_variable(CurStore, name, domain)
         IN  /\ variables' = st.variables
             /\ heap' = [ heap EXCEPT ![domains] = st.domains ]
             /\ constraints' = st.constraints
             /\ call' = [ NoCall EXCEPT !.op = "add_variable", !.i = name,
                                        !.domain = domain,
                                        !.iKnown = name \in DOMAIN heap[domains] ]
             /\ applied' = [ p \in DOMAIN applied |->
                               IF p[1] = name THEN NoTable ELSE applied[p] ]
    /\ nops' = nops + 1
    /\ UNCHANGED << domains, pc, stack, cur, q, counter, caller, infResult,
                    retval, result, err, calls, before, out, todo >>

\* csp.add_constraint_one_way(i, j, filter_function)
AddConstraintOneWay ==
    /\ pc = "build"
    /\ nops < MaxOps
    /\ \E i \in BuildNames : \E j \in BuildNames : \E f \in FilterFunctions :
         /\ call' = [ NoCall EXCEPT !.op = "add_constraint_one_way",
                                    !.i = i, !.j = j, !.f = f,
                                    !.iKnown = i \in DOMAIN heap[domains],
                                    !.jKnown = j \in DOMAIN heap[domains] ]
         /\ IF add_constraint_raises(CurStore, i, j)
            THEN /\ pc' = "error"
                 /\ err' = "KeyError"
                 /\ UNCHANGED << constraints, applied >>
            ELSE /\ constraints' =
                        add_constraint_one_way(CurStore, i, j, f).constraints
                 /\ applied' =
                        [ applied EXCEPT ![<<i, j>>] =
                            IF @.made THEN [ @ EXCEPT !.fs = @ \cup {f} ]
                            ELSE [ made |-> TRUE, di |-> heap[domains][i],
                                   dj |-> heap[domains][j], fs |-> {f} ] ]
                 /\ UNCHANGED << pc, err >>
    /\ nops' = nops + 1
    /\ UNCHANGED << variables, domains, heap, stack, cur, q, counter, caller,
                    infResult, retval, result, calls, before, out, todo >>

\* csp.get_all_neighboring_arcs(var) for a name that was added
NeighboringArcs ==
    /\ pc = "build"
    /\ \E var \in DOMAIN constraints :
         /\ out' = get_all_neighboring_arcs(var)
         /\ call' = [ NoCall EXCEPT !.op = "get_all_neighboring_arcs",
                                    !.i = var, !.iKnown = TRUE ]
    /\ UNCHANGED << variables, domains, constraints, heap, pc, stack, cur, q,
                    counter, caller, infResult, retval, result, err, calls,
                    before, nops, applied, todo >>

NextBuild ==
    \/ AddVariable
    \/ AddConstraintOneWay
    \/ NeighboringArcs

SpecBuild == InitBuild /\ [][NextBuild]_vars

(* ---------------------------------------------------------------------- *)
(* select_unassigned_variable on its own                                   *)
(* ---------------------------------------------------------------------- *)
\* The lists of up to MaxSize values
SelectLists ==
    UNION { { s \in [1 .. k -> 1 .. MaxSize] :
                \A a, b \in 1 .. k : a < b => s[a] < s[b] } : k \in 0 .. MaxSize }

InitSelect ==
    \E names \in NameSchemes : \E n \in 1 .. Len(names) :
    \E doms \in [1 .. n -> SelectLists] :
    LET st == AddVariables(EmptyStore, SubSeq(names, 1, n), doms, 1) IN
        /\ variables = st.variables
        /\ constraints = st.constraints
        /\ heap = << st.domains >>
        /\ domains = Len(heap)
        /\ pc = "idle"
        /\ stack = << >>
        /\ cur = None
        /\ q = << >>
        /\ counter = 0
        /\ caller = "none"
        /\ infResult = "none"
        /\ retval = None
        /\ result = None
        /\ err = "none"
        /\ calls = 0
        /\ before = st.domains
        /\ nops = 0
        /\ call = NoCall
        /\ out = << >>
        /\ applied = << >>
        /\ todo = {}

\* csp.select_unassigned_variable(csp.domains)
Select ==
    /\ pc = "idle"
    /\ pc' = "selected"
    /\ call' = [ NoCall EXCEPT !.op = "select_unassigned_variable" ]
    /\ out' = select_unassigned_variable(heap[domains])
    /\ UNCHANGED << variables, domains, constraints, heap, stack, cur, q,
                    counter, caller, infResult, retval, result, err, calls,
                    before, nops, applied, todo >>

NextSelect == Select

SpecSelect == InitSelect /\ [][NextSelect]_vars

(* ---------------------------------------------------------------------- *)
(* revise on its own: one call for one arc on a copy of the store's        *)
(* domains                                                                 *)
(* ---------------------------------------------------------------------- *)
ReviseCall ==
    /\ pc = "idle"
    /\ \E arc \in Range(get_all_arcs) :
         LET c == deepcopy(heap, domains)
             r == revise(c.heap[c.ref], arc[1][1], arc[2][1])
         IN  /\ heap' = [ c.heap EXCEPT ![c.ref][arc[1][1]] = r.domain ]
             /\ cur' = c.ref
             /\ out' = << r.revised >>
             /\ call' = [ NoCall EXCEPT !.op = "revise", !.i = arc[1][1],
                                        !.j = arc[2][1], !.iKnown = TRUE,
                                        !.jKnown = TRUE ]
    /\ pc' = "revised"
    /\ UNCHANGED << variables, domains, constraints, stack, q, counter, caller,
                    infResult, retval, result, err, calls, before, nops,
                    applied, todo >>

NextRevise == ReviseCall

SpecRevise == Init /\ [][NextRevise]_vars

(* ---------------------------------------------------------------------- *)
(* inference with the arcs of the store in any order as its queue          *)
(* ---------------------------------------------------------------------- *)
\* The while loop of inference from position c of the queue qq to its end:
\* what the call returns or raises, and the assignment it leaves
RECURSIVE InferenceLoop(_, _, _)
InferenceLoop(assignment, qq, c) ==
    IF c >= Len(qq) THEN [ result |-> "True", assignment |-> assignment ]
    ELSE LET x == qq[c + 1][1]
             y == qq[c + 1][2]
         IN  IF ~ IsKey(assignment, x)
             THEN [ result |-> "KeyError", assignment |-> assignment ]
             ELSE LET r    == revise(assignment, x[1], y[1])
                      next == [ assignment EXCEPT ![x[1]] = r.domain ]
                  IN  IF r.revised /\ Len(r.domain) = 0
                      THEN [ result |-> "False", assignment |-> next ]
                      ELSE InferenceLoop(
                               next,
                               IF r.revised THEN qq \o Appended(x, y) ELSE qq,
                               c + 1)

\* inference(assignment, queue)
inference(assignment, queue) == InferenceLoop(assignment, queue, 0)

\* inference is called on a copy of the store's domains with a queue that
\* holds the arcs of get_all_arcs() in an order that is not fixed: todo is
\* the part of that queue that the loop has not reached, q what the loop
\* appended behind it
OrderStart ==
    /\ pc = "idle"
    /\ LET c == deepcopy(heap, domains)
       IN  /\ heap' = c.heap
           /\ cur' = c.ref
    /\ todo' = Range(get_all_arcs)
    /\ q' = << >>
    /\ counter' = 0
    /\ caller' = "order"
    /\ infResult' = "none"
    /\ pc' = "inference"
    /\ UNCHANGED << variables, domains, constraints, stack, retval, result, err,
                    calls, before, nops, call, out, applied >>

\* One round of the while loop for any entry of the queue's first part
AnyOrderStep ==
    /\ pc = "inference"
    /\ \E e \in todo :
         /\ Round(e[1], e[2])
         /\ todo' = todo \ {e}
    /\ UNCHANGED << variables, domains, constraints, stack, cur, counter, caller,
                    retval, result, calls, before, nops, call, out, applied >>

NextOrder ==
    \/ OrderStart
    \/ AnyOrderStep
    \/ InferenceStep
    \/ InferenceReturn

SpecOrder == Init /\ [][NextOrder]_vars

(* ---------------------------------------------------------------------- *)
(* Properties                                                              *)
(* ---------------------------------------------------------------------- *)
Names == { variables[a] : a \in 1 .. Len(variables) }

\* the registered arcs (i, j): j is a key of constraints[i]
Arcs == { p \in Names \X Names : HasKey(constraints[p[1]], p[2]) }

Table(i, j) == Lookup(constraints[i], j)

ArcConsistent(asg) ==
    \A p \in Arcs : \A v \in Range(asg[p[1]]) :
        \E w \in Range(asg[p[2]]) : <<v, w>> \in Table(p[1], p[2])

AllSingleton(asg) == \A v \in DOMAIN asg : Len(asg[v]) = 1

IsSolution(asg) ==
    /\ AllSingleton(asg)
    /\ \A p \in Arcs : << asg[p[1]][1], asg[p[2]][1] >> \in Table(p[1], p[2])

\* one value per variable from the store's domains that satisfies every
\* registered constraint
Satisfiable ==
    \E f \in [Names -> Values] :
        /\ \A v \in Names : f[v] \in Range(heap[domains][v])
        /\ \A p \in Arcs : << f[p[1]], f[p[2]] >> \in Table(p[1], p[2])

Ended == pc \in {"done", "error"}

SubDomains(a, b) == \A v \in DOMAIN a : Range(a[v]) \subseteq Range(b[v])

\* C1: a result of backtracking_search that is not None has exactly one value
\* for every variable, and the values satisfy every registered constraint.
C1_ResultIsSolution ==
    (pc = "done" /\ result # None) => IsSolution(heap[result])

\* C2: when the store has a satisfying assignment, backtracking_search ends
\* by returning a solution.
C2_SatisfiableIsSolved ==
    (Ended /\ Satisfiable) =>
        (pc = "done" /\ result # None /\ IsSolution(heap[result]))

\* C3: when the store has no satisfying assignment, backtracking_search ends
\* by returning None.
C3_UnsatisfiableIsFailure ==
    (Ended /\ ~ Satisfiable) => (pc = "done" /\ result = None)

\* The first inference call returned False and no later one has been made
RootFailed == caller = "root" /\ infResult = "False"

\* C4: when the first inference call returns False, no variable is selected,
\* no value is tried and the search returns None.
C4_RootFailureNeverBranches ==
    RootFailed =>
        /\ stack = << >>
        /\ pc \notin {"loop", "error"}
        /\ pc = "returning" => retval = None
        /\ pc = "done" => result = None

\* C5: backtrack entered with an assignment whose lists all have one value
\* returns that assignment at once, unchanged, without selecting a variable.
C5_CompleteIsReturnedAtOnce ==
    [][ (pc = "backtrack" /\ AllSingleton(heap[cur])) =>
            /\ pc' = "returning"
            /\ retval' = cur
            /\ heap' = heap
            /\ stack' = stack ]_vars

\* C6: when inference returns True, every value of every variable has a
\* supporting value in the list of each variable it has an arc to.
C6_TrueIsArcConsistent ==
    (pc = "inferred" /\ infResult = "True") => ArcConsistent(heap[cur])

\* inference returned True in a trial, with an arc from an undecided variable
C6_Witness ==
    /\ pc = "inferred" /\ infResult = "True" /\ caller = "trial"
    /\ \E p \in Arcs : Len(heap[cur][p[1]]) > 1

\* C7: a step changes no dictionary but the one the running inference call
\* works on, and never the assignment of a call of backtrack that is in its
\* loop: the assignments of the parents, the clones of earlier trials and
\* the store's domains stay as they are.
C7_OnlyLiveCloneChanges ==
    [][ /\ \A r \in 1 .. Len(heap) :
               (pc # "inference" \/ r # cur) => heap'[r] = heap[r]
        /\ \A k \in 1 .. Len(stack) :
               heap'[stack[k].assignment] = heap[stack[k].assignment] ]_vars

\* a second trial of a call has run and its clone differs from the parent
C7_Witness ==
    /\ pc = "inferred" /\ caller = "trial"
    /\ stack # << >>
    /\ Top.idx >= 2
    /\ heap[cur] # heap[Top.assignment]
    /\ \E r \in 1 .. Len(heap) : r # cur /\ heap[r] # heap[Top.assignment]

\* C8: backtracking_search changes neither the store's variables nor its
\* domains nor its constraint tables.
C8_StoreUnchanged ==
    [][ /\ variables' = variables
        /\ domains' = domains
        /\ heap'[domains] = heap[domains]
        /\ constraints' = constraints ]_vars

\* the search has ended after it pruned a copy of the domains
C8_Witness ==
    /\ pc = "done"
    /\ \E r \in 1 .. Len(heap) : heap[r] # heap[domains]

\* the assignment of each live call is within the assignment of its caller
ChildWithinParent ==
    /\ \A k \in 1 .. Len(stack) - 1 :
           SubDomains(heap[stack[k + 1].assignment], heap[stack[k].assignment])
    /\ (caller = "trial" /\ pc \in {"inference", "inferred", "backtrack"}) =>
           SubDomains(heap[cur], heap[Top.assignment])

\* C9: no step adds a value to a list of any assignment, and the assignment
\* of a child is within the assignment of its parent.
C9_DomainsOnlyShrink ==
    [][ /\ \A r \in 1 .. Len(heap) : SubDomains(heap'[r], heap[r])
        /\ ChildWithinParent' ]_vars

\* a trial two levels down has had a value removed by revise
C9_Witness ==
    /\ Len(stack) >= 2
    /\ pc = "inferred" /\ caller = "trial"
    /\ \E v \in Names : Len(heap[cur][v]) < Len(heap[Top.assignment][v])
                          /\ v # Top.unassignedVar

\* C10: inference with all arcs on an arc-consistent assignment returns True
\* and changes no list, the first time and every time it is called again.
C10_PropagateIdempotent ==
    (caller = "propagate" /\ ArcConsistent(before)) =>
        /\ pc # "error"
        /\ heap[cur] = before
        /\ pc = "inferred" => infResult = "True"

\* the second inference call in succession returned, on an arc-consistent
\* assignment with an arc from an undecided variable
C10_Witness ==
    /\ caller = "propagate" /\ calls = 2 /\ pc = "inferred"
    /\ ArcConsistent(before)
    /\ \E p \in Arcs : Len(before[p[1]]) > 1

\* C11: get_all_neighboring_arcs(v) returns exactly the arcs (i, v) of the
\* names i that have a constraint table for v, whether or not v has one
\* for i.
C11_NeighboringArcsAreIncoming ==
    call.op = "get_all_neighboring_arcs" =>
        Range(out) = { << i, call.i >> :
                         i \in { k \in DOMAIN constraints :
                                   HasKey(constraints[k], call.i) } }

\* C12: the table of (i, j) holds exactly the pairs of the lists that i and
\* j had at the first add_constraint_one_way call for (i, j) that satisfy
\* every predicate the table was given since.
C12_PredicatesIntersect ==
    \A p \in DOMAIN applied :
        /\ applied[p].made <=>
               (p[1] \in DOMAIN constraints /\ HasKey(constraints[p[1]], p[2]))
        /\ applied[p].made =>
               Table(p[1], p[2]) =
                   { pr \in Range(applied[p].di) \X Range(applied[p].dj) :
                       \A f \in applied[p].fs : Holds(f, pr[1], pr[2]) }

\* a table was given a second, different predicate that alone allows a pair
\* which the first one had removed
C12_Witness ==
    /\ pc = "build"
    /\ call.op = "add_constraint_one_way"
    /\ applied[<<call.i, call.j>>].fs = {"neq", "lt"}
    /\ Table(call.i, call.j) # {}
    /\ \E pr \in Range(applied[<<call.i, call.j>>].di)
                    \X Range(applied[<<call.i, call.j>>].dj) :
           Holds(call.f, pr[1], pr[2]) /\ pr \notin Table(call.i, call.j)

\* C13: add_variable with a name that is already there or with an empty
\* list, and add_constraint_one_way with a name that was never added, end
\* in an error.
C13_MalformedInputRejected ==
    /\ (call.op = "add_variable" /\ (call.iKnown \/ call.domain = << >>))
           => pc = "error"
    /\ (call.op = "add_constraint_one_way" /\ ~ (call.iKnown /\ call.jKnown))
           => pc = "error"

\* C13, amended: add_constraint_one_way with a name that was never added
\* raises KeyError and leaves the store as it was, and with two added names
\* it raises nothing; add_variable raises nothing, whatever the name and
\* the list: the name is appended to the variables, gets the list and an
\* empty dictionary of constraints.
C13_OnlyUnknownNameRejected ==
    [][ nops' = nops + 1 =>
          /\ call'.op = "add_constraint_one_way" =>
                IF call'.iKnown /\ call'.jKnown
                THEN pc' = "build"
                ELSE /\ pc' = "error" /\ err' = "KeyError"
                     /\ UNCHANGED << variables, heap, constraints >>
          /\ call'.op = "add_variable" =>
                /\ pc' = "build"
                /\ variables' = Append(variables, call'.i)
                /\ heap'[domains][call'.i] = call'.domain
                /\ constraints'[call'.i] = << >> ]_vars

\* add_constraint_one_way was refused for a name that was never added, in a
\* store that had taken the same name twice
C13_Witness ==
    /\ pc = "error"
    /\ call.op = "add_constraint_one_way"
    /\ Len(variables) > Cardinality(Range(variables))

\* the variables of the dictionary asg that have more than one value
Undecided(asg) == { v \in DOMAIN asg : Len(asg[v]) > 1 }

\* C14: when some variable has more than one value,
\* select_unassigned_variable returns a variable that has more than one
\* value and no more values than any other such variable.
C14_SelectsMinimumRemainingValues ==
    (pc = "selected" /\ Undecided(heap[domains]) # {}) =>
        /\ out # << >>
        /\ out[1] \in Undecided(heap[domains])
        /\ \A v \in Undecided(heap[domains]) :
               Len(heap[domains][out[1]]) <= Len(heap[domains][v])

\* C15: revise(assignment, i, j) leaves in the list of i exactly the values
\* that have a partner in the list of j with the pair in the table of
\* (i, j), in their order; it changes no other list, and it returns True
\* exactly when it removed a value.
C15_ReviseRemovesUnsupported ==
    pc = "revised" =>
        LET old == heap[domains]
            new == heap[cur]
            supported(v) == \E w \in Range(old[call.j]) :
                                <<v, w>> \in Table(call.i, call.j)
        IN  /\ new[call.i] = SelectSeq(old[call.i], supported)
            /\ \A v \in DOMAIN old \ {call.i} : new[v] = old[v]
            /\ out[1] <=> new[call.i] # old[call.i]

\* the registered arcs as pairs of dictionary keys
KeyArcs == { << <<p[1]>>, <<p[2]>> >> : p \in Arcs }

\* C16: when a round of inference for the arc (i, j) removed a value and
\* left the list of i non-empty, it appends to the queue exactly the arcs
\* (k, i) of get_all_neighboring_arcs(i) other than (j, i), and every entry
\* of the queue is a registered arc.
C16_AppendedAreArcs ==
    [][ (pc = "inference" /\ pc' = "inference" /\ counter' = counter + 1
            /\ heap' # heap) =>
          LET i == q[counter + 1][1][1]
              j == q[counter + 1][2][1]
              neighbours == get_all_neighboring_arcs(i)
              arcs == [ k \in 1 .. Len(neighbours) |->
                          << <<neighbours[k][1]>>, <<neighbours[k][2]>> >> ]
          IN  /\ q' = q \o SelectSeq(arcs, LAMBDA e : e # << <<j>>, <<i>> >>)
              /\ Range(q') \subseteq KeyArcs ]_vars

\* every constraint of the store is registered in both directions
TwoWay == \A p \in Arcs : << p[2], p[1] >> \in Arcs

\* C18: on a store whose constraints are all registered in both directions
\* backtracking_search raises no error.
C18_NeverEndsInError == (TwoWay /\ Arcs # {}) => pc # "error"

\* C19: the assignment of every call of backtrack that was made from the
\* loop of another has fewer undecided variables than the assignment of
\* that other call, and the calls that are in their loops are no more than
\* the variables that were undecided in the assignment of the first.
C19_UndecidedDecreases ==
    /\ \A k \in 1 .. Len(stack) - 1 :
           Cardinality(Undecided(heap[stack[k + 1].assignment]))
               < Cardinality(Undecided(heap[stack[k].assignment]))
    /\ (pc = "backtrack" /\ caller = "trial") =>
           Cardinality(Undecided(heap[cur]))
               < Cardinality(Undecided(heap[Top.assignment]))
    /\ stack # << >> =>
           Len(stack) <= Cardinality(Undecided(heap[stack[1].assignment]))

\* a call of backtrack made from the loop of the first call is in its own
\* loop
C19_Witness ==
    /\ pc = "loop"
    /\ Len(stack) = 2
    /\ Cardinality(Undecided(heap[stack[1].assignment])) = 2

\* C17: inference with the arcs of the store in any order ends as it ends
\* with the arcs in the order of get_all_arcs(): with the same returned
\* value, and when that is True with the same lists in the assignment.
C17_OrderDoesNotMatter ==
    (caller = "order" /\ pc \in {"inferred", "error"}) =>
        LET ref == inference(heap[domains], get_all_arcs)
        IN  /\ ref.result = (IF pc = "error" THEN err ELSE infResult)
            /\ ref.result = "True" => heap[cur] = ref.assignment

=============================================================================
